---- MODULE Spec2Model ----
(***************************************************************************)
(* Model of the into_inner_drop crate (src/src/lib.rs): the wrapper        *)
(* IntoInnerHelper<T, D> around a ManuallyDrop<T> slot, its operations     *)
(* new / inner / inner_mut / into_inner, its Drop implementation, and the  *)
(* DetachedDrop finalizer D::drop (the tests' Dummy, whose body is empty   *)
(* and therefore destroys the payload it received when it returns).        *)
(*                                                                         *)
(* Each helper instance is a cell c.  The statements of into_inner and of  *)
(* Drop::drop are separate steps, so that the program points between the   *)
(* raw read of the slot and what follows it are states of the model.       *)
(***************************************************************************)
EXTENDS Integers, Sequences, FiniteSets, TLC

\* Bounds of the model.
NumCells == 2
MaxPayload == 2

Cells == 1..NumCells
Payload == 1..MaxPayload
NoVal == 0

VARIABLES
    pc,            \* per cell: the program point of the code owning the cell
    state,         \* per cell: "Unborn", "Live" (slot initialized), "Consumed" (slot read out)
    armed,         \* per cell: the helper value still has its drop glue pending
    slot,          \* per cell: content of the ManuallyDrop<T> field `inner`
    orig,          \* per cell: the payload handed to `new`
    tmp,           \* per cell: the value produced by core::ptr::read
    reads,         \* per cell: how many times the slot was read out by ptr::read
    written,       \* per cell: a write went through the reference of inner_mut
    fin,           \* per cell: the values D::drop was called with, in order
    ret,           \* per cell: the value into_inner returned to the caller
    held,          \* per cell: the caller still holds the returned payload
    payloadDrops,  \* per cell: how many times the payload's own destructor ran
    panicked,      \* per cell: D::drop panicked and Drop::drop was left by unwinding
    lastRef        \* the last reference handed out by inner / inner_mut: <<cell, value>>

vars == <<pc, state, armed, slot, orig, tmp, reads, written, fin,
          ret, held, payloadDrops, panicked, lastRef>>

PcValues == {"unborn", "idle", "ii_read", "ii_forgot", "extracted",
             "d_read", "d_fin", "d_glue", "dropped"}

NoRef == <<0, NoVal>>

\* Number of D::drop calls made for cell c.
FinCount(c) == Len(fin[c])

\* A reference handed out by inner / inner_mut borrows the helper, so it is
\* dead by the time the helper is moved into into_inner or dropped.
EndBorrow(r, c) == IF r[1] = c THEN NoRef ELSE r

\* ManuallyDrop::new(inner): the slot holds the value, no drop glue for it.
ManuallyDropNew(v) == v

\* core::ptr::read(&*self.inner): a bitwise copy of the slot's content.
PtrReadWrongPlace(v) == IF v = MaxPayload THEN 1 ELSE v + 1
PtrRead(v) == v

\* core::mem::forget(self): the helper's drop glue will not run any more.
ForgetKeepsArmed(a) == a
Forget(a) == FALSE

\* Program points of into_inner at which the function can unwind or return
\* while it still owns `self`: there is no statement between the ptr::read
\* and the mem::forget, and neither of the two can panic.
UnwindPointsWithGap == {"ii_read"}
UnwindPoints == {}

\* Points at which the scope of the owner of the helper value can end.
ScopeExitPoints == {"idle", "extracted"} \cup UnwindPoints

\* The drop glue of the helper's fields, run after Drop::drop returned:
\* the field is ManuallyDrop<T>, whose glue does not destroy the payload.
PlainFieldGlue(n) == n + 1
FieldGlue(n) == n

\* The drop glue of the helper runs at a scope exit of a still armed value.
DropGuard(c) == armed[c] /\ pc[c] \in ScopeExitPoints

Init ==
    /\ pc = [c \in Cells |-> "unborn"]
    /\ state = [c \in Cells |-> "Unborn"]
    /\ armed = [c \in Cells |-> FALSE]
    /\ slot = [c \in Cells |-> NoVal]
    /\ orig = [c \in Cells |-> NoVal]
    /\ tmp = [c \in Cells |-> NoVal]
    /\ reads = [c \in Cells |-> 0]
    /\ written = [c \in Cells |-> FALSE]
    /\ fin = [c \in Cells |-> <<>>]
    /\ ret = [c \in Cells |-> NoVal]
    /\ held = [c \in Cells |-> FALSE]
    /\ payloadDrops = [c \in Cells |-> 0]
    /\ panicked = [c \in Cells |-> FALSE]
    /\ lastRef = NoRef

\* IntoInnerHelper::new(inner)
New(c, p) ==
    /\ pc[c] = "unborn"
    /\ pc' = [pc EXCEPT ![c] = "idle"]
    /\ state' = [state EXCEPT ![c] = "Live"]
    /\ armed' = [armed EXCEPT ![c] = TRUE]
    /\ slot' = [slot EXCEPT ![c] = ManuallyDropNew(p)]
    /\ orig' = [orig EXCEPT ![c] = p]
    /\ UNCHANGED <<tmp, reads, written, fin, ret, held, payloadDrops, lastRef, panicked>>

\* An accessor that checks the borrow at run time and refuses a second one.
InnerRuntimeChecked(c) ==
    /\ pc[c] = "idle"
    /\ lastRef[1] # c
    /\ lastRef' = <<c, slot[c]>>
    /\ UNCHANGED <<pc, state, armed, slot, orig, tmp, reads, written, fin, ret, held, payloadDrops, panicked>>

\* IntoInnerHelper::inner(&self) -> &T
Inner(c) ==
    /\ pc[c] = "idle"
    /\ lastRef' = <<c, slot[c]>>
    /\ UNCHANGED <<pc, state, armed, slot, orig, tmp, reads, written, fin, ret, held, payloadDrops, panicked>>

\* An accessor that takes the value out of the slot (ManuallyDrop::take).
InnerMutTakes(c, v) ==
    /\ pc[c] = "idle"
    /\ slot' = [slot EXCEPT ![c] = v]
    /\ written' = [written EXCEPT ![c] = TRUE]
    /\ lastRef' = <<c, v>>
    /\ reads' = [reads EXCEPT ![c] = @ + 1]
    /\ state' = [state EXCEPT ![c] = "Consumed"]
    /\ UNCHANGED <<pc, armed, orig, tmp, fin, ret, held, payloadDrops, panicked>>

\* An accessor that hands out a reference to a copy: the write misses the slot.
InnerMutWritesCopy(c, v) ==
    /\ pc[c] = "idle"
    /\ written' = [written EXCEPT ![c] = TRUE]
    /\ lastRef' = <<c, v>>
    /\ UNCHANGED <<pc, state, armed, slot, orig, tmp, reads, fin, ret, held, payloadDrops, panicked>>

\* IntoInnerHelper::inner_mut(&mut self) -> &mut T, and a write of v through it
InnerMut(c, v) ==
    /\ pc[c] = "idle"
    /\ slot' = [slot EXCEPT ![c] = v]
    /\ written' = [written EXCEPT ![c] = TRUE]
    /\ lastRef' = <<c, v>>
    /\ UNCHANGED <<pc, state, armed, orig, tmp, reads, fin, ret, held, payloadDrops, panicked>>

\* into_inner(self): let inner = core::ptr::read(&*self.inner);
IntoInnerRead(c) ==
    /\ pc[c] = "idle"
    /\ tmp' = [tmp EXCEPT ![c] = PtrRead(slot[c])]
    /\ reads' = [reads EXCEPT ![c] = @ + 1]
    /\ state' = [state EXCEPT ![c] = "Consumed"]
    /\ pc' = [pc EXCEPT ![c] = "ii_read"]
    /\ lastRef' = EndBorrow(lastRef, c)
    /\ UNCHANGED <<armed, slot, orig, written, fin, ret, held, payloadDrops, panicked>>

\* into_inner(self): core::mem::forget(self);
IntoInnerForget(c) ==
    /\ pc[c] = "ii_read"
    /\ armed' = [armed EXCEPT ![c] = Forget(armed[c])]
    /\ pc' = [pc EXCEPT ![c] = "ii_forgot"]
    /\ UNCHANGED <<state, slot, orig, tmp, reads, written, fin, ret, held, payloadDrops, lastRef, panicked>>

\* into_inner(self): the tail expression `inner` is returned to the caller
IntoInnerReturn(c) ==
    /\ pc[c] = "ii_forgot"
    /\ ret' = [ret EXCEPT ![c] = tmp[c]]
    /\ held' = [held EXCEPT ![c] = TRUE]
    /\ pc' = [pc EXCEPT ![c] = "extracted"]
    /\ UNCHANGED <<state, armed, slot, orig, tmp, reads, written, fin, payloadDrops, lastRef, panicked>>

\* The caller destroys the payload it got from into_inner (core::mem::drop(inner)).
CallerDropInner(c) ==
    /\ held[c]
    /\ held' = [held EXCEPT ![c] = FALSE]
    /\ payloadDrops' = [payloadDrops EXCEPT ![c] = @ + 1]
    /\ UNCHANGED <<pc, state, armed, slot, orig, tmp, reads, written, fin, ret, lastRef, panicked>>

\* Drop::drop that destroys the slot in place (ManuallyDrop::drop) before it
\* reads it for D::drop.
DropReadDropsInPlace(c) ==
    /\ DropGuard(c)
    /\ armed' = [armed EXCEPT ![c] = FALSE]
    /\ tmp' = [tmp EXCEPT ![c] = PtrRead(slot[c])]
    /\ reads' = [reads EXCEPT ![c] = @ + 1]
    /\ state' = [state EXCEPT ![c] = "Consumed"]
    /\ pc' = [pc EXCEPT ![c] = "d_read"]
    /\ lastRef' = EndBorrow(lastRef, c)
    /\ payloadDrops' = [payloadDrops EXCEPT ![c] = @ + 1]
    /\ UNCHANGED <<slot, orig, written, fin, ret, held, panicked>>

\* Drop::drop(&mut self): the argument core::ptr::read(&*self.inner) is evaluated
DropRead(c) ==
    /\ DropGuard(c)
    /\ armed' = [armed EXCEPT ![c] = FALSE]
    /\ tmp' = [tmp EXCEPT ![c] = PtrRead(slot[c])]
    /\ reads' = [reads EXCEPT ![c] = @ + 1]
    /\ state' = [state EXCEPT ![c] = "Consumed"]
    /\ pc' = [pc EXCEPT ![c] = "d_read"]
    /\ lastRef' = EndBorrow(lastRef, c)
    /\ UNCHANGED <<slot, orig, written, fin, ret, held, payloadDrops, panicked>>

\* Drop::drop that calls D::drop twice with the value read.
DetachedDropEnterTwice(c) ==
    /\ pc[c] = "d_read"
    /\ fin' = [fin EXCEPT ![c] = Append(Append(@, tmp[c]), tmp[c])]
    /\ pc' = [pc EXCEPT ![c] = "d_fin"]
    /\ UNCHANGED <<state, armed, slot, orig, tmp, reads, written, ret, held, payloadDrops, lastRef, panicked>>

\* Drop::drop that destroys the value read without calling D::drop.
DetachedDropEnterSkipped(c) ==
    /\ pc[c] = "d_read"
    /\ pc' = [pc EXCEPT ![c] = "d_fin"]
    /\ UNCHANGED <<state, armed, slot, orig, tmp, reads, written, fin, ret, held, payloadDrops, lastRef, panicked>>

\* Drop::drop(&mut self): D::drop is called with the value read
DetachedDropEnter(c) ==
    /\ pc[c] = "d_read"
    /\ fin' = [fin EXCEPT ![c] = Append(@, tmp[c])]
    /\ pc' = [pc EXCEPT ![c] = "d_fin"]
    /\ UNCHANGED <<state, armed, slot, orig, tmp, reads, written, ret, held, payloadDrops, lastRef, panicked>>

\* D::drop returns: its by-value parameter goes out of scope and is destroyed
DetachedDropExit(c) ==
    /\ pc[c] = "d_fin"
    /\ payloadDrops' = [payloadDrops EXCEPT ![c] = @ + 1]
    /\ pc' = [pc EXCEPT ![c] = "d_glue"]
    /\ UNCHANGED <<state, armed, slot, orig, tmp, reads, written, fin, ret, held, lastRef, panicked>>

\* D::drop panics while it owns the value it was called with: unwinding
\* destroys that value and leaves D::drop and Drop::drop; the drop glue of the
\* helper's fields still runs afterwards.
FinalizerPanic(c) ==
    /\ pc[c] = "d_fin"
    /\ panicked' = [panicked EXCEPT ![c] = TRUE]
    /\ payloadDrops' = [payloadDrops EXCEPT ![c] = @ + 1]
    /\ pc' = [pc EXCEPT ![c] = "d_glue"]
    /\ UNCHANGED <<state, armed, slot, orig, tmp, reads, written, fin, ret, held, lastRef>>

\* After Drop::drop returned or unwound, the drop glue of the helper's fields runs
DropGlueFields(c) ==
    /\ pc[c] = "d_glue"
    /\ payloadDrops' = [payloadDrops EXCEPT ![c] = FieldGlue(@)]
    /\ pc' = [pc EXCEPT ![c] = "dropped"]
    /\ UNCHANGED <<state, armed, slot, orig, tmp, reads, written, fin, ret, held, lastRef, panicked>>

Next ==
    \/ \E c \in Cells, p \in Payload : New(c, p)
    \/ \E c \in Cells : Inner(c)
    \/ \E c \in Cells, v \in Payload : InnerMut(c, v)
    \/ \E c \in Cells : IntoInnerRead(c)
    \/ \E c \in Cells : IntoInnerForget(c)
    \/ \E c \in Cells : IntoInnerReturn(c)
    \/ \E c \in Cells : CallerDropInner(c)
    \/ \E c \in Cells : DropRead(c)
    \/ \E c \in Cells : DetachedDropEnter(c)
    \/ \E c \in Cells : DetachedDropExit(c)
    \/ \E c \in Cells : FinalizerPanic(c)
    \/ \E c \in Cells : DropGlueFields(c)

Spec == Init /\ [][Next]_vars

TypeOK ==
    /\ pc \in [Cells -> PcValues]
    /\ state \in [Cells -> {"Unborn", "Live", "Consumed"}]
    /\ armed \in [Cells -> BOOLEAN]
    /\ slot \in [Cells -> Payload \cup {NoVal}]
    /\ orig \in [Cells -> Payload \cup {NoVal}]
    /\ tmp \in [Cells -> Payload \cup {NoVal}]
    /\ reads \in [Cells -> 0..1]
    /\ written \in [Cells -> BOOLEAN]
    /\ \A c \in Cells : fin[c] \in Seq(Payload) /\ Len(fin[c]) <= 1
    /\ ret \in [Cells -> Payload \cup {NoVal}]
    /\ held \in [Cells -> BOOLEAN]
    /\ payloadDrops \in [Cells -> 0..1]
    /\ panicked \in [Cells -> BOOLEAN]
    /\ lastRef \in {NoRef} \cup (Cells \X Payload)

\* The cell went down the destruction path and into_inner never returned for it.
DestroyedWithoutExtraction(c) == pc[c] = "dropped" /\ ret[c] = NoVal

\* into_inner has read the slot of the cell (it is running or has returned).
Extracting(c) == pc[c] \in {"ii_read", "ii_forgot"} \/ ret[c] # NoVal

AllTerminal == \A c \in Cells : pc[c] \in {"extracted", "dropped"}

RECURSIVE SumFin(_)
SumFin(S) == IF S = {} THEN 0
             ELSE LET c == CHOOSE x \in S : TRUE IN FinCount(c) + SumFin(S \ {c})

\* Who owns the payload of cell c: the cell while its slot is initialized, the
\* caller from the read of into_inner (the local `inner`, then the returned
\* value) until it destroys the payload, the finalizer from the read of
\* Drop::drop (the argument of D::drop) until D::drop is left.
Owners(c) ==
    (IF state[c] = "Live" THEN {"cell"} ELSE {})
    \cup (IF pc[c] \in {"ii_read", "ii_forgot"} \/ held[c] THEN {"caller"} ELSE {})
    \cup (IF pc[c] \in {"d_read", "d_fin"} THEN {"finalizer"} ELSE {})

----------------------------------------------------------------------------
\* C1: a cell that was constructed with p and destroyed without into_inner has
\* had D::drop called exactly once, with the payload the cell held (the
\* original p when nothing was written through inner_mut); since the formula
\* holds in every later state as well, no later step calls it again.
C1_DropFinalizesOnce ==
    \A c \in Cells :
        (ret[c] = NoVal /\ pc[c] \in {"d_fin", "d_glue", "dropped"}) =>
            /\ fin[c] = <<slot[c]>>
            /\ ~written[c] => fin[c] = <<orig[c]>>

C1_Witness ==
    \E c \in Cells :
        /\ DestroyedWithoutExtraction(c)
        /\ ~written[c]
        /\ fin[c] = <<orig[c]>>

\* C2: once into_inner has read the slot of a cell, D::drop has not been and is
\* never called for that cell, also after the caller destroyed the payload it
\* got back.
C2_ExtractNeverFinalizes ==
    \A c \in Cells : Extracting(c) => FinCount(c) = 0

C2_Witness ==
    \E c \in Cells :
        /\ pc[c] = "extracted"
        /\ ret[c] = orig[c]
        /\ ~held[c]
        /\ payloadDrops[c] = 1
        /\ FinCount(c) = 0

\* C3: when every cell has reached its terminal state, the number of D::drop
\* calls is the number of cells destroyed without extraction, each of those
\* calls got that cell's own payload, and no call belongs to an extracted cell.
C3_FinalizerCountMatches ==
    AllTerminal =>
        /\ SumFin(Cells) = Cardinality({c \in Cells : DestroyedWithoutExtraction(c)})
        /\ \A c \in Cells :
              /\ DestroyedWithoutExtraction(c) => fin[c] = <<slot[c]>>
              /\ ret[c] # NoVal => fin[c] = <<>>

C3_Witness ==
    /\ AllTerminal
    /\ \E c1, c2 \in Cells :
          /\ c1 < c2
          /\ DestroyedWithoutExtraction(c1)
          /\ ret[c2] # NoVal
          /\ orig[c1] # orig[c2]
          /\ fin[c1] = <<orig[c1]>>
    /\ SumFin(Cells) = NumCells - Cardinality({c \in Cells : ret[c] # NoVal})

\* C4 (invariant A): the slot of a cell is read out at most once, and exactly
\* once for every cell that has ceased to exist, by into_inner or by
\* Drop::drop and never by both.
C4_SlotReadExactlyOnce ==
    \A c \in Cells :
        /\ reads[c] <= 1
        /\ pc[c] \in {"extracted", "dropped"} => reads[c] = 1
        /\ ~(ret[c] # NoVal /\ FinCount(c) > 0)

C4_Witness ==
    \E c1, c2 \in Cells :
        /\ pc[c1] = "extracted" /\ reads[c1] = 1
        /\ pc[c2] = "dropped" /\ reads[c2] = 1

\* C5: a step that leaves a cell at the point where inner and inner_mut run
\* (the only steps of that cell that do so are the two accessors) leaves the
\* cell Live and changes none of its slot-read count, its D::drop calls, its
\* pending drop glue and its payload's destructor count; and both terminal
\* operations stay possible afterwards.
C5_BorrowKeepsLifecycle ==
    /\ [][\A c \in Cells :
            (pc[c] = "idle" /\ pc'[c] = "idle") =>
                /\ state'[c] = "Live"
                /\ reads'[c] = reads[c]
                /\ fin'[c] = fin[c]
                /\ armed'[c] = armed[c]
                /\ payloadDrops'[c] = payloadDrops[c]]_vars
    /\ [](\A c \in Cells :
            lastRef[1] = c => (ENABLED IntoInnerRead(c)) /\ (ENABLED DropRead(c)))

C5_Witness ==
    \E c \in Cells :
        /\ lastRef[1] = c
        /\ written[c]
        /\ slot[c] # orig[c]
        /\ state[c] = "Live"
        /\ reads[c] = 0

\* C6: into_inner after new(p) returns p to the caller (the slot's content,
\* which is p when nothing was written), and from then on the caller holds the
\* payload: the cell is Consumed and has no drop glue pending.
C6_RoundTrip ==
    \A c \in Cells :
        ret[c] # NoVal =>
            /\ ret[c] = slot[c]
            /\ ~written[c] => ret[c] = orig[c]
            /\ state[c] = "Consumed"
            /\ ~armed[c]
            /\ held[c] \/ payloadDrops[c] = 1

C6_Witness ==
    \E c \in Cells :
        /\ pc[c] = "extracted"
        /\ ~written[c]
        /\ held[c]
        /\ ret[c] = orig[c]

\* C7: every operation is possible on a Live cell, every started operation can
\* take its next step, construction is possible for every payload, and no cell
\* is ever at a program point other than those of the normal paths.
C7_OperationsTotal ==
    \A c \in Cells :
        /\ pc[c] \in PcValues
        /\ state[c] = "Unborn" => \A p \in Payload : ENABLED New(c, p)
        /\ state[c] = "Live" =>
              /\ ENABLED Inner(c)
              /\ \A v \in Payload : ENABLED InnerMut(c, v)
              /\ ENABLED IntoInnerRead(c)
              /\ ENABLED DropRead(c)
        /\ pc[c] = "ii_read" => ENABLED IntoInnerForget(c)
        /\ pc[c] = "ii_forgot" => ENABLED IntoInnerReturn(c)
        /\ pc[c] = "d_read" => ENABLED DetachedDropEnter(c)
        /\ pc[c] = "d_fin" => ENABLED DetachedDropExit(c)
        /\ pc[c] = "d_glue" => ENABLED DropGlueFields(c)

C7_Witness ==
    \E c1, c2 \in Cells :
        /\ state[c1] = "Live" /\ lastRef[1] = c1 /\ written[c1]
        /\ pc[c2] = "dropped"

\* C8: once into_inner has read the slot of a cell, Drop::drop of that cell
\* cannot start: at the program point between the read and the forget the
\* helper is still armed, but nothing can run its drop glue there.
C8_NoDropAfterExtractRead ==
    \A c \in Cells :
        pc[c] \in {"ii_read", "ii_forgot", "extracted"} => ~ENABLED DropRead(c)

C8_Witness ==
    \E c \in Cells : pc[c] = "ii_read" /\ reads[c] = 1 /\ armed[c]

\* C9: a cell leaves Live only by the read of into_inner or of Drop::drop and
\* is then Consumed; a Consumed cell stays Consumed, and none of inner,
\* inner_mut, into_inner, Drop::drop can start on it.
C9_ConsumedIsTerminal ==
    /\ [][\A c \in Cells :
            /\ state[c] = "Consumed" => state'[c] = "Consumed"
            /\ (state[c] = "Live" /\ state'[c] # "Live") =>
                  /\ state'[c] = "Consumed"
                  /\ pc'[c] \in {"ii_read", "d_read"}]_vars
    /\ [](\A c \in Cells :
            state[c] = "Consumed" =>
                /\ ~ENABLED Inner(c)
                /\ \A v \in Payload : ~ENABLED InnerMut(c, v)
                /\ ~ENABLED IntoInnerRead(c)
                /\ ~ENABLED DropRead(c))

C9_Witness ==
    \E c1, c2 \in Cells :
        /\ state[c1] = "Consumed" /\ pc[c1] = "extracted"
        /\ state[c2] = "Consumed" /\ pc[c2] = "dropped"

\* C10: the payload's own destructor runs at most once; it has not run while
\* the cell is Live nor before D::drop returns; it has run once when the
\* destruction of the cell is complete; after into_inner returned it has not
\* run while the caller holds the payload and has run once after the caller
\* destroyed it.
C10_PayloadDroppedOnce ==
    \A c \in Cells :
        /\ payloadDrops[c] <= 1
        /\ pc[c] \in {"unborn", "idle", "ii_read", "ii_forgot", "d_read", "d_fin"} =>
              payloadDrops[c] = 0
        /\ pc[c] \in {"d_glue", "dropped"} => payloadDrops[c] = 1
        /\ pc[c] = "extracted" => payloadDrops[c] = (IF held[c] THEN 0 ELSE 1)

C10_Witness ==
    \E c1, c2 \in Cells :
        /\ pc[c1] = "dropped" /\ payloadDrops[c1] = 1
        /\ pc[c2] = "extracted" /\ ~held[c2] /\ payloadDrops[c2] = 1

\* C11: a payload that exists (constructed and not yet destroyed) has exactly
\* one owner among cell, caller and finalizer and never two; the owner is the
\* cell exactly while the cell is Live, and it passes from the cell to the
\* caller exactly by the read of into_inner and to the finalizer exactly by
\* the read of Drop::drop.
C11_SingleOwner ==
    /\ [](\A c \in Cells :
            /\ Cardinality(Owners(c)) <= 1
            /\ (state[c] # "Unborn" /\ payloadDrops[c] = 0) => Cardinality(Owners(c)) = 1
            /\ pc[c] = "idle" => Owners(c) = {"cell"})
    /\ [][\A c \in Cells :
            /\ (Owners(c) = {"cell"} /\ Owners(c)' = {"caller"}) <=>
                  (pc[c] = "idle" /\ pc'[c] = "ii_read")
            /\ (Owners(c) = {"cell"} /\ Owners(c)' = {"finalizer"}) <=>
                  (pc[c] = "idle" /\ pc'[c] = "d_read")
            /\ Owners(c) = {"cell"} => Owners(c)' # {}]_vars

C11_Witness ==
    \E c1, c2 \in Cells :
        /\ Owners(c1) = {"caller"} /\ pc[c1] = "extracted"
        /\ Owners(c2) = {"finalizer"} /\ pc[c2] = "d_fin"

\* C12: the target of a reference handed out by inner or inner_mut is the
\* slot, so a write of v leaves the slot holding v; a slot never written holds
\* the payload given to new; the slot does not change once a terminal
\* operation has read it; and into_inner returns, and D::drop receives, the
\* slot's content.
C12_TerminalHandsOverSlotContent ==
    /\ [](\A c \in Cells :
            /\ lastRef[1] = c => slot[c] = lastRef[2]
            /\ (state[c] # "Unborn" /\ ~written[c]) => slot[c] = orig[c]
            /\ ret[c] # NoVal => ret[c] = slot[c]
            /\ fin[c] # <<>> => fin[c] = <<slot[c]>>)
    /\ [][\A c \in Cells : state[c] = "Consumed" => slot'[c] = slot[c]]_vars

C12_Witness ==
    \E c1, c2 \in Cells :
        /\ written[c1] /\ slot[c1] # orig[c1] /\ ret[c1] = slot[c1]
        /\ written[c2] /\ slot[c2] # orig[c2] /\ fin[c2] = <<slot[c2]>>

\* C13: when D::drop panicked after Drop::drop handed it the payload, the slot
\* has been read once, D::drop has been called once and cannot be called again
\* for the cell, and the payload's destructor has run at most once, also after
\* the drop glue of the helper's fields has run.
C13_FinalizerPanicNoSecondRead ==
    \A c \in Cells :
        panicked[c] =>
            /\ reads[c] = 1
            /\ FinCount(c) = 1
            /\ payloadDrops[c] <= 1
            /\ ~armed[c]
            /\ ~ENABLED DropRead(c)

C13_Witness ==
    \E c \in Cells :
        /\ panicked[c]
        /\ pc[c] = "dropped"
        /\ reads[c] = 1
        /\ payloadDrops[c] = 1

\* C14: on the destruction path the payload is alive when D::drop receives
\* it, and its destructor runs only in a step that leaves D::drop, after the
\* call was recorded.
C14_FinalizerBeforePayloadDrop ==
    /\ [](\A c \in Cells : pc[c] \in {"d_read", "d_fin"} => payloadDrops[c] = 0)
    /\ [][\A c \in Cells :
            (ret[c] = NoVal /\ payloadDrops'[c] # payloadDrops[c]) =>
                /\ pc[c] = "d_fin"
                /\ FinCount(c) = 1
                /\ pc'[c] = "d_glue"]_vars

C14_Witness ==
    \E c \in Cells :
        /\ pc[c] = "d_glue"
        /\ ~panicked[c]
        /\ FinCount(c) = 1
        /\ payloadDrops[c] = 1
====
